---- MODULE Spec2Model ----
(***************************************************************************)
(* Model of examples/utils_glue.py: convert_examples_to_features and its   *)
(* helper _truncate_seq_pair.                                              *)
(*                                                                         *)
(* Conventions.                                                            *)
(*   - A Python value that may be None is a sequence of length at most 1:  *)
(*     None is <<>> and a value x is <<x>>.                                *)
(*   - A text is a sequence of one-character strings; " " is whitespace.   *)
(*   - A float is an integer number of hundredths (1.0 is 100, 0.0 is 0).  *)
(*   - Sequences are 1-based here, lists are 0-based in the source.        *)
(***************************************************************************)
EXTENDS Integers, Sequences, FiniteSets, TLC

\* ------------------------------------------------------------------ bounds
\* longest text_a / text_b (in words) of an example given to the converter
MaxLenA == 4
MaxLenB == 3
\* largest max_seq_length of the dense range of budgets
MaxSeq == 6
\* longest batch of examples
MaxExamples == 2
\* longest token list and largest budget handed directly to _truncate_seq_pair
MaxTruncLen == 10
MaxBudget == 12
\* longest batch of the runs over long batches (more than LogFirst examples)
MaxBatch == 6
\* longest preds / labels sequence given to compute_metrics
MaxPreds == 2

\* --------------------------------------------------------- Python helpers
None == <<>>
Some(x) == <<x>>

Min(a, b) == IF a < b THEN a ELSE b
Max(a, b) == IF a > b THEN a ELSE b

\* [x] * n ; a negative n gives the empty list
Repeat(x, n) == [i \in 1..Max(n, 0) |-> x]

\* s[:n] ; a negative n counts from the end
PyTake(s, n) ==
    IF n >= 0 THEN SubSeq(s, 1, Min(n, Len(s)))
    ELSE SubSeq(s, 1, Max(Len(s) + n, 0))

\* s with its last element removed (list.pop() on a non-empty list)
Pop(s) == SubSeq(s, 1, Len(s) - 1)

IsPrefix(p, s) == Len(p) <= Len(s) /\ p = SubSeq(s, 1, Len(p))

\* ------------------------------------------------------------- tokenizer
Words == <<"a", "b", "c", "d", "e", "f", "g", "h">>
WordAt(i) == Words[((i - 1) % Len(Words)) + 1]
WordIndex(w) == CHOOSE i \in 1..Len(Words) : Words[i] = w

\* the text of n words starting at word number k: "a b c"
TextOf(k, n) ==
    [i \in 1..Max(2 * n - 1, 0) |-> IF i % 2 = 1 THEN WordAt(k + (i - 1) \div 2) ELSE " "]

\* tokenizer.tokenize(text): whitespace splitting of one-character words
Tokenize(text) == SelectSeq(text, LAMBDA c : c # " ")

\* the auxiliary weight the tokenizer attaches to a token of text_a
EpaOf(tok) == 10 * WordIndex(tok)
TokenizeEpa(text) == [i \in 1..Len(Tokenize(text)) |-> EpaOf(Tokenize(text)[i])]

cls_token == "[CLS]"
sep_token == "[SEP]"

\* tokenizer.convert_tokens_to_ids(tokens)
TokenId(tok) ==
    IF tok = cls_token THEN 101
    ELSE IF tok = sep_token THEN 102
    ELSE 1000 + WordIndex(tok)
ConvertTokensToIds(toks) == [i \in 1..Len(toks) |-> TokenId(toks[i])]

\* float(label) of the label strings used here; None and "x" do not parse,
\* "nan" parses to the float NaN
FloatParses(lab) == lab \in {"0", "1", "nan"}
FloatOf(lab) == IF lab = "0" THEN 0 ELSE 100
FloatValue(lab) ==
    IF lab = "nan" THEN [kind |-> "float_nan", val |-> 0]
    ELSE [kind |-> "float", val |-> FloatOf(lab)]

\* the number of leading examples that are logged
LogFirst == 5

\* "label: %s (id = %d)" % (example.label, label_id): %d rejects a NaN
LogRaises(index, lab_id) ==
    index < LogFirst /\ lab_id # None /\ lab_id[1].kind = "float_nan"

\* ------------------------------------------------------------------ state
VARIABLES
    examples,             \* the examples argument: a sequence of InputExample
    cfg,                  \* the other arguments of convert_examples_to_features
    pc,                   \* position in the code
    ex_index,             \* number of examples already converted
    features,             \* the features list
    err,                  \* the exception that ended the call, or "none"
    tokens_a, tokens_b, epa_vec,
    special_tokens_count,
    max_length, in_a, in_b, ret_pc,   \* the frame of _truncate_seq_pair
    tokens, segment_ids, input_ids, input_mask, padding_length,
    label_id,
    task_name, preds, labels,   \* the arguments of compute_metrics or of a lookup
    lookup,                     \* which registry or function the caller consults
    result                      \* what it returned, None before

\* the variables of the metric reporter and the registries
mvars == <<task_name, preds, labels, lookup, result>>

locals == <<tokens_a, tokens_b, epa_vec, special_tokens_count,
            tokens, segment_ids, input_ids, input_mask, padding_length, label_id>>
frame == <<max_length, in_a, in_b, ret_pc>>
vars == <<examples, cfg, pc, ex_index, features, err, locals, frame, mvars>>

\* the truthiness of an optional string or list: None and empty are false
Truthy(opt) == opt # None /\ opt[1] # <<>>

InputExample(text_a, text_b, label) ==
    [text_a |-> text_a, text_b |-> text_b, label |-> label]

InputFeatures(ids, mask, segs, lab, epa) ==
    [input_ids |-> ids, input_mask |-> mask, segment_ids |-> segs,
     label_id |-> lab, epa_vec |-> epa]

\* ----------------------------------------------------- _truncate_seq_pair
\* mutant of TooLong: the comparison off by one
TooLongOffByOne(a, b, budget) == Len(a) + Len(b) >= budget

\* if total_length <= max_length: break  (negated: the loop goes on)
TooLong(a, b, budget) == Len(a) + Len(b) > budget

\* mutant of PopsA: a tie shortens tokens_a
PopsAOnTie(a, b) == Len(a) >= Len(b)

\* if len(tokens_a) > len(tokens_b): tokens_a.pop()  else: tokens_b.pop()
PopsA(a, b) == Len(a) > Len(b)

\* one iteration of the while loop that pops tokens_a
TruncPopA ==
    /\ pc = "truncate_pair"
    /\ TooLong(tokens_a, tokens_b[1], max_length)
    /\ PopsA(tokens_a, tokens_b[1])
    /\ tokens_a' = Pop(tokens_a)
    /\ UNCHANGED <<mvars, examples, cfg, pc, ex_index, features, err, tokens_b, epa_vec,
                   special_tokens_count, tokens, segment_ids, input_ids, input_mask,
                   padding_length, label_id, frame>>

\* one iteration of the while loop that pops tokens_b
TruncPopB ==
    /\ pc = "truncate_pair"
    /\ TooLong(tokens_a, tokens_b[1], max_length)
    /\ ~PopsA(tokens_a, tokens_b[1])
    /\ Len(tokens_b[1]) > 0
    /\ tokens_b' = Some(Pop(tokens_b[1]))
    /\ UNCHANGED <<mvars, examples, cfg, pc, ex_index, features, err, tokens_a, epa_vec,
                   special_tokens_count, tokens, segment_ids, input_ids, input_mask,
                   padding_length, label_id, frame>>

\* tokens_b.pop() on an empty list raises IndexError
TruncRaise ==
    /\ pc = "truncate_pair"
    /\ TooLong(tokens_a, tokens_b[1], max_length)
    /\ ~PopsA(tokens_a, tokens_b[1])
    /\ Len(tokens_b[1]) = 0
    /\ pc' = "raised"
    /\ err' = "IndexError"
    /\ UNCHANGED <<mvars, examples, cfg, ex_index, features, locals, frame>>

\* the break of the while loop: the function returns to its caller
TruncBreak ==
    /\ pc = "truncate_pair"
    /\ ~TooLong(tokens_a, tokens_b[1], max_length)
    /\ pc' = ret_pc
    /\ UNCHANGED <<mvars, examples, cfg, ex_index, features, err, locals, frame>>

TruncateSeqPair == TruncPopA \/ TruncPopB \/ TruncRaise \/ TruncBreak

\* --------------------------------------- _truncate_seq_pair called alone
TokensOf(k, n) == [i \in 1..n |-> WordAt(k + i - 1)]

InitTrunc ==
    /\ examples = <<>>
    /\ cfg = <<>>
    /\ pc = "truncate_pair"
    /\ ex_index = 0
    /\ features = <<>>
    /\ err = "none"
    /\ \E n \in 0..MaxTruncLen, m \in 0..MaxTruncLen :
          /\ tokens_a = TokensOf(1, n)
          /\ tokens_b = Some(TokensOf(3, m))
    /\ in_a = tokens_a
    /\ in_b = tokens_b[1]
    /\ max_length \in -2..MaxBudget
    /\ ret_pc = "returned"
    /\ epa_vec = None
    /\ special_tokens_count = 0
    /\ tokens = None /\ segment_ids = None /\ input_ids = None /\ input_mask = None
    /\ padding_length = 0
    /\ label_id = None
    /\ task_name = "" /\ preds = <<>> /\ labels = <<>> /\ lookup = "" /\ result = None

NextTrunc == TruncPopA \/ TruncPopB \/ TruncRaise \/ TruncBreak

SpecTrunc == InitTrunc /\ [][NextTrunc]_vars

\* ------------------------------------------------------------ the inputs
\* label strings of examples: a label of label_list, a string that is neither a
\* label nor a number, or no label
LabelPool == {None, Some("1"), Some("x")}

\* text_b: absent, empty, blank, or 1..MaxLenB words
TextBPool == {None, Some(<<>>), Some(<<" ">>)} \cup {Some(TextOf(4, n)) : n \in 1..MaxLenB}

ExamplePool ==
    {InputExample(TextOf(1, n), tb, lab) : n \in 0..MaxLenA, tb \in TextBPool, lab \in LabelPool}

\* the examples of the batches of more than one example
SmallExamplePool ==
    {InputExample(TextOf(1, 2), None, Some("1")),
     InputExample(TextOf(1, 3), Some(TextOf(4, 1)), Some("1")),
     InputExample(TextOf(2, 1), None, None),
     InputExample(TextOf(3, 1), None, Some("x"))}

RECURSIVE SeqsOf(_, _)
SeqsOf(S, n) ==
    IF n = 0 THEN {<<>>}
    ELSE {Append(s, e) : s \in SeqsOf(S, n - 1), e \in S}

Batches ==
    {<<>>} \cup {<<e>> : e \in ExamplePool}
           \cup UNION {SeqsOf(SmallExamplePool, n) : n \in 2..MaxExamples}

\* the segment-id and pad-token arguments: the defaults of the signature, and the
\* values of a caller with its own segment ids
SegmentProfiles ==
    {[cls_token_segment_id |-> 1, pad_token |-> 0, pad_token_segment_id |-> 0,
      sequence_a_segment_id |-> 0, sequence_b_segment_id |-> 1],
     [cls_token_segment_id |-> 2, pad_token |-> 5, pad_token_segment_id |-> 4,
      sequence_a_segment_id |-> 0, sequence_b_segment_id |-> 1]}

OutputModes == {"classification", "regression", "ranking"}

MaxSeqLengths == 0..MaxSeq \cup {10}

Config(seg, msl, mode, cae, ste, pol, mpz) ==
    [label_list |-> <<"0", "1">>,
     max_seq_length |-> msl,
     output_mode |-> mode,
     cls_token_at_end |-> cae,
     cls_token_segment_id |-> seg.cls_token_segment_id,
     sep_token_extra |-> ste,
     pad_on_left |-> pol,
     pad_token |-> seg.pad_token,
     pad_token_segment_id |-> seg.pad_token_segment_id,
     sequence_a_segment_id |-> seg.sequence_a_segment_id,
     sequence_b_segment_id |-> seg.sequence_b_segment_id,
     mask_padding_with_zero |-> mpz]

Configs ==
    {Config(seg, msl, mode, cae, ste, pol, mpz) :
        seg \in SegmentProfiles, msl \in MaxSeqLengths, mode \in OutputModes,
        cae \in BOOLEAN, ste \in BOOLEAN, pol \in BOOLEAN, mpz \in BOOLEAN}

\* the signature's defaults
DefaultConfig(msl, mode) ==
    Config([cls_token_segment_id |-> 1, pad_token |-> 0, pad_token_segment_id |-> 0,
            sequence_a_segment_id |-> 0, sequence_b_segment_id |-> 1],
           msl, mode, FALSE, FALSE, FALSE, TRUE)

\* mutant of LabelMap: the index counted from 1
LabelMapOneBased(lab) ==
    CHOOSE i \in 1..Len(cfg.label_list) :
        /\ cfg.label_list[i] = lab
        /\ \A j \in (i + 1)..Len(cfg.label_list) : cfg.label_list[j] # lab

\* label_map = {label : i for i, label in enumerate(label_list)}
InLabelMap(lab) == \E i \in 1..Len(cfg.label_list) : cfg.label_list[i] = lab
LabelMap(lab) ==
    (CHOOSE i \in 1..Len(cfg.label_list) :
        /\ cfg.label_list[i] = lab
        /\ \A j \in (i + 1)..Len(cfg.label_list) : cfg.label_list[j] # lab) - 1

\* ------------------------------------------- convert_examples_to_features
Init ==
    /\ examples \in Batches
    /\ cfg \in Configs
    /\ pc = "loop"
    /\ ex_index = 0
    /\ features = <<>>
    /\ err = "none"
    /\ tokens_a = None /\ tokens_b = None /\ epa_vec = None
    /\ special_tokens_count = 0
    /\ max_length = 0 /\ in_a = None /\ in_b = None /\ ret_pc = "assemble"
    /\ tokens = None /\ segment_ids = None /\ input_ids = None /\ input_mask = None
    /\ padding_length = 0
    /\ label_id = None
    /\ task_name = "" /\ preds = <<>> /\ labels = <<>> /\ lookup = "" /\ result = None

example == examples[ex_index + 1]

\* for (ex_index, example) in enumerate(examples): the next example is taken
ForExample ==
    /\ pc = "loop"
    /\ ex_index < Len(examples)
    /\ pc' = "tokenize"
    /\ UNCHANGED <<mvars, examples, cfg, ex_index, features, err, locals, frame>>

\* the loop is exhausted: return features
Return ==
    /\ pc = "loop"
    /\ ex_index = Len(examples)
    /\ pc' = "returned"
    /\ UNCHANGED <<mvars, examples, cfg, ex_index, features, err, locals, frame>>

\* tokenize text_a; with a text_b tokenize it too and call _truncate_seq_pair
TokenizePair ==
    /\ pc = "tokenize"
    /\ Truthy(example.text_b)
    /\ tokens_a' = Tokenize(example.text_a)
    /\ epa_vec' = TokenizeEpa(example.text_a)
    /\ tokens_b' = Some(Tokenize(example.text_b[1]))
    /\ special_tokens_count' = IF cfg.sep_token_extra THEN 4 ELSE 3
    /\ max_length' = cfg.max_seq_length - special_tokens_count'
    /\ in_a' = tokens_a'
    /\ in_b' = tokens_b'[1]
    /\ ret_pc' = "assemble"
    /\ pc' = "truncate_pair"
    /\ UNCHANGED <<mvars, examples, cfg, ex_index, features, err,
                   tokens, segment_ids, input_ids, input_mask, padding_length, label_id>>

\* mutant of TokenizeSingle: tokens_b keeps the value of the previous example
TokenizeSingleStale ==
    /\ pc = "tokenize"
    /\ ~Truthy(example.text_b)
    /\ special_tokens_count' = IF cfg.sep_token_extra THEN 3 ELSE 2
    /\ LET toks == Tokenize(example.text_a)
           epa  == TokenizeEpa(example.text_a)
           room == cfg.max_seq_length - special_tokens_count'
       IN  IF Len(toks) > room
           THEN /\ tokens_a' = PyTake(toks, room)
                /\ epa_vec' = PyTake(epa, room)
           ELSE /\ tokens_a' = toks
                /\ epa_vec' = epa
    /\ pc' = "assemble"
    /\ UNCHANGED <<mvars, examples, cfg, ex_index, features, err, tokens_b,
                   tokens, segment_ids, input_ids, input_mask, padding_length, label_id,
                   frame>>

\* tokenize text_a; without a text_b cut tokens_a and epa_vec by slicing
TokenizeSingle ==
    /\ pc = "tokenize"
    /\ ~Truthy(example.text_b)
    /\ special_tokens_count' = IF cfg.sep_token_extra THEN 3 ELSE 2
    /\ LET toks == Tokenize(example.text_a)
           epa  == TokenizeEpa(example.text_a)
           room == cfg.max_seq_length - special_tokens_count'
       IN  IF Len(toks) > room
           THEN /\ tokens_a' = PyTake(toks, room)
                /\ epa_vec' = PyTake(epa, room)
           ELSE /\ tokens_a' = toks
                /\ epa_vec' = epa
    /\ tokens_b' = None
    /\ pc' = "assemble"
    /\ UNCHANGED <<mvars, examples, cfg, ex_index, features, err,
                   tokens, segment_ids, input_ids, input_mask, padding_length, label_id,
                   frame>>

\* mutant of PlaceCls: the two layouts swapped
PlaceClsSwapped(seq, x, at_end) == IF at_end THEN <<x>> \o seq ELSE Append(seq, x)

\* [x] + seq or seq + [x]: where the class token and its companions go
PlaceCls(seq, x, at_end) == IF at_end THEN Append(seq, x) ELSE <<x>> \o seq

\* mutant of SepsA: sep_token_extra is ignored
SepsAOne(x, c) == <<x>>

\* the separators that follow tokens_a: one, or two with sep_token_extra
SepsA(x, c) == IF c.sep_token_extra THEN <<x, x>> ELSE <<x>>

\* tokens: tokens_a + [SEP] (+ [SEP]) (+ tokens_b + [SEP]) and the class token
AssembleTokens(ta, tb, c) ==
    PlaceCls(ta \o SepsA(sep_token, c)
                \o (IF Truthy(tb) THEN Append(tb[1], sep_token) ELSE <<>>),
             cls_token, c.cls_token_at_end)

\* epa_vec: 1.0 for each separator after tokens_a and for the class token;
\* nothing is added for tokens_b and its separator
AssembleEpa(epa, c) == PlaceCls(epa \o SepsA(100, c), 100, c.cls_token_at_end)

\* segment_ids
AssembleSegments(ta, tb, c) ==
    PlaceCls(Repeat(c.sequence_a_segment_id, Len(ta \o SepsA(sep_token, c)))
                \o (IF Truthy(tb)
                    THEN Repeat(c.sequence_b_segment_id, Len(tb[1]) + 1)
                    ELSE <<>>),
             c.cls_token_segment_id, c.cls_token_at_end)

Assemble ==
    /\ pc = "assemble"
    /\ tokens' = AssembleTokens(tokens_a, tokens_b, cfg)
    /\ epa_vec' = AssembleEpa(epa_vec, cfg)
    /\ segment_ids' = AssembleSegments(tokens_a, tokens_b, cfg)
    /\ pc' = "pad"
    /\ UNCHANGED <<mvars, examples, cfg, ex_index, features, err, tokens_a, tokens_b,
                   special_tokens_count, input_ids, input_mask, padding_length,
                   label_id, frame>>

\* mutant of RealMask: mask_padding_with_zero is ignored
RealMaskOne(c) == 1

\* the mask values of a real token and of a padding position
RealMask(c) == IF c.mask_padding_with_zero THEN 1 ELSE 0
PadMask(c) == IF c.mask_padding_with_zero THEN 0 ELSE 1

\* mutant of PadSeq: the padding on the other side
PadSeqOtherSide(seq, x, n, on_left) ==
    IF on_left THEN seq \o Repeat(x, n) ELSE Repeat(x, n) \o seq

\* ([x] * n) + seq or seq + ([x] * n)
PadSeq(seq, x, n, on_left) ==
    IF on_left THEN Repeat(x, n) \o seq ELSE seq \o Repeat(x, n)

\* convert to ids, build the mask, pad the four sequences
Pad ==
    /\ pc = "pad"
    /\ LET ids == ConvertTokensToIds(tokens)
           n   == cfg.max_seq_length - Len(ids)
       IN  /\ padding_length' = n
           /\ input_ids' = PadSeq(ids, cfg.pad_token, n, cfg.pad_on_left)
           /\ input_mask' = PadSeq(Repeat(RealMask(cfg), Len(ids)), PadMask(cfg), n,
                                   cfg.pad_on_left)
           /\ segment_ids' = PadSeq(segment_ids, cfg.pad_token_segment_id, n,
                                    cfg.pad_on_left)
           /\ epa_vec' = PadSeq(epa_vec, 0, n, cfg.pad_on_left)
    /\ pc' = "check"
    /\ UNCHANGED <<mvars, examples, cfg, ex_index, features, err, tokens_a, tokens_b,
                   special_tokens_count, tokens, label_id, frame>>

\* mutant of LengthsOk: the assertions accept a sequence that is too long
LengthsOkAtLeast(ids, mask, segs, epa, msl) ==
    /\ Len(ids) >= msl
    /\ Len(mask) >= msl
    /\ Len(segs) >= msl
    /\ Len(epa) >= msl

\* the four assertions
LengthsOk(ids, mask, segs, epa, msl) ==
    /\ Len(ids) = msl
    /\ Len(mask) = msl
    /\ Len(segs) = msl
    /\ Len(epa) = msl

CheckPass ==
    /\ pc = "check"
    /\ LengthsOk(input_ids, input_mask, segment_ids, epa_vec, cfg.max_seq_length)
    /\ pc' = "label"
    /\ UNCHANGED <<mvars, examples, cfg, ex_index, features, err, locals, frame>>

CheckFail ==
    /\ pc = "check"
    /\ ~LengthsOk(input_ids, input_mask, segment_ids, epa_vec, cfg.max_seq_length)
    /\ pc' = "raised"
    /\ err' = "AssertionError"
    /\ UNCHANGED <<mvars, examples, cfg, ex_index, features, locals, frame>>

\* mutant of LabelClassification: a label missing from label_map gets id 0
LabelClassificationDefault ==
    /\ pc = "label"
    /\ cfg.output_mode = "classification"
    /\ label_id' = IF example.label # None /\ InLabelMap(example.label[1])
                   THEN Some([kind |-> "int", val |-> LabelMap(example.label[1])])
                   ELSE Some([kind |-> "int", val |-> 0])
    /\ pc' = "append"
    /\ UNCHANGED <<mvars, examples, cfg, ex_index, features, err, tokens_a, tokens_b,
                   epa_vec, special_tokens_count, tokens, segment_ids, input_ids,
                   input_mask, padding_length, frame>>

\* label_id = label_map[example.label]
LabelClassification ==
    /\ pc = "label"
    /\ cfg.output_mode = "classification"
    /\ IF example.label # None /\ InLabelMap(example.label[1])
       THEN /\ label_id' = Some([kind |-> "int", val |-> LabelMap(example.label[1])])
            /\ pc' = "append"
            /\ err' = err
       ELSE /\ label_id' = label_id
            /\ pc' = "raised"
            /\ err' = "KeyError"
    /\ UNCHANGED <<mvars, examples, cfg, ex_index, features, tokens_a, tokens_b, epa_vec,
                   special_tokens_count, tokens, segment_ids, input_ids, input_mask,
                   padding_length, frame>>

\* label_id = float(example.label): TypeError on None, ValueError on a non-number
LabelRegression ==
    /\ pc = "label"
    /\ cfg.output_mode = "regression"
    /\ IF example.label # None /\ FloatParses(example.label[1])
       THEN /\ label_id' = Some(FloatValue(example.label[1]))
            /\ pc' = "append"
            /\ err' = err
       ELSE /\ label_id' = label_id
            /\ pc' = "raised"
            /\ err' = IF example.label = None THEN "TypeError" ELSE "ValueError"
    /\ UNCHANGED <<mvars, examples, cfg, ex_index, features, tokens_a, tokens_b, epa_vec,
                   special_tokens_count, tokens, segment_ids, input_ids, input_mask,
                   padding_length, frame>>

\* raise KeyError(output_mode)
LabelBadMode ==
    /\ pc = "label"
    /\ cfg.output_mode \notin {"classification", "regression"}
    /\ pc' = "raised"
    /\ err' = "KeyError"
    /\ UNCHANGED <<mvars, examples, cfg, ex_index, features, locals, frame>>

\* mutant of AppendFeature: the feature is put at the front of the list
AppendFeatureFront ==
    /\ pc = "append"
    /\ IF LogRaises(ex_index, label_id)
       THEN /\ pc' = "raised"
            /\ err' = "ValueError: cannot convert float NaN to integer"
            /\ UNCHANGED <<features, ex_index>>
       ELSE /\ features' = <<InputFeatures(input_ids, input_mask, segment_ids,
                                           label_id, epa_vec)>> \o features
            /\ ex_index' = ex_index + 1
            /\ pc' = "loop"
            /\ err' = err
    /\ UNCHANGED <<mvars, examples, cfg, locals, frame>>

\* log the first five examples, append the feature, go to the next example
AppendFeature ==
    /\ pc = "append"
    /\ IF LogRaises(ex_index, label_id)
       THEN /\ pc' = "raised"
            /\ err' = "ValueError: cannot convert float NaN to integer"
            /\ UNCHANGED <<features, ex_index>>
       ELSE /\ features' = Append(features,
                                  InputFeatures(input_ids, input_mask, segment_ids,
                                                label_id, epa_vec))
            /\ ex_index' = ex_index + 1
            /\ pc' = "loop"
            /\ err' = err
    /\ UNCHANGED <<mvars, examples, cfg, locals, frame>>

Next ==
    \/ ForExample
    \/ Return
    \/ TokenizePair
    \/ TokenizeSingle
    \/ TruncPopA
    \/ TruncPopB
    \/ TruncRaise
    \/ TruncBreak
    \/ Assemble
    \/ Pad
    \/ CheckPass
    \/ CheckFail
    \/ LabelClassification
    \/ LabelRegression
    \/ LabelBadMode
    \/ AppendFeature

Spec == Init /\ [][Next]_vars

\* ------------------------------------------------- long batches of examples
\* a single span, a pair that fits after truncation, a regression label that
\* parses to NaN
BatchPool ==
    {InputExample(TextOf(1, 2), None, Some("1")),
     InputExample(TextOf(1, 3), Some(TextOf(4, 1)), Some("0")),
     InputExample(TextOf(2, 1), None, Some("nan"))}

LongBatches == UNION {SeqsOf(BatchPool, n) : n \in 0..MaxBatch}

LabelLists == {<<"0", "1">>, <<"1", "0">>}

BatchConfigs ==
    {[DefaultConfig(msl, mode) EXCEPT !.label_list = ll] :
        msl \in 2..MaxSeq, mode \in OutputModes, ll \in LabelLists}

InitBatch ==
    /\ examples \in LongBatches
    /\ cfg \in BatchConfigs
    /\ pc = "loop"
    /\ ex_index = 0
    /\ features = <<>>
    /\ err = "none"
    /\ tokens_a = None /\ tokens_b = None /\ epa_vec = None
    /\ special_tokens_count = 0
    /\ max_length = 0 /\ in_a = None /\ in_b = None /\ ret_pc = "assemble"
    /\ tokens = None /\ segment_ids = None /\ input_ids = None /\ input_mask = None
    /\ padding_length = 0
    /\ label_id = None
    /\ task_name = "" /\ preds = <<>> /\ labels = <<>> /\ lookup = "" /\ result = None

SpecBatch == InitBatch /\ [][Next]_vars

\* ================================================================ claims
ValidMode == cfg.output_mode \in {"classification", "regression"}

\* a Feature has just been appended: the locals are those of examples[ex_index]
\* and the Feature is features[ex_index]
Produced == pc = "loop" /\ ex_index >= 1
LastFeature == features[ex_index]
LastExample == examples[ex_index]

\* the non-padding positions of the last Feature (1-based)
FirstReal == IF cfg.pad_on_left THEN cfg.max_seq_length - Len(tokens) + 1 ELSE 1
LastReal == IF cfg.pad_on_left THEN cfg.max_seq_length ELSE Len(tokens)

\* C1: whenever the length check is reached with max_seq_length at least the
\* number of special tokens inserted, input_ids, input_mask, segment_ids and
\* epa_vec all have length max_seq_length (the assertions never fail).
C1_LengthCheckNeverFails ==
    (pc = "check" /\ cfg.max_seq_length >= special_tokens_count)
        => LengthsOk(input_ids, input_mask, segment_ids, epa_vec, cfg.max_seq_length)

\* C2: every Feature in the features list has input_ids, input_mask and
\* segment_ids of length exactly max_seq_length.
C2_FeatureLengths ==
    \A i \in 1..Len(features) :
        /\ Len(features[i].input_ids) = cfg.max_seq_length
        /\ Len(features[i].input_mask) = cfg.max_seq_length
        /\ Len(features[i].segment_ids) = cfg.max_seq_length

\* a Feature was produced from a text far longer than the budget
C2_Witness ==
    /\ Produced
    /\ Len(Tokenize(LastExample.text_a)) >= Len(tokens_a) + 2
    /\ Len(LastFeature.input_ids) = cfg.max_seq_length

\* C3: the pair example ("a b c", "d e", label "1") with max_seq_length 10, the
\* default configuration, classification and labels ["0", "1"] ends with the
\* call returning one Feature of length 10 with label_id 1 and nothing truncated.
C3_EndToEnd ==
    (/\ examples = <<InputExample(TextOf(1, 3), Some(TextOf(4, 2)), Some("1"))>>
     /\ cfg = DefaultConfig(10, "classification")
     /\ pc \in {"returned", "raised"})
        => /\ pc = "returned"
           /\ Len(features) = 1
           /\ Len(features[1].input_ids) = 10
           /\ Len(features[1].input_mask) = 10
           /\ Len(features[1].segment_ids) = 10
           /\ features[1].label_id = Some([kind |-> "int", val |-> 1])
           /\ tokens_a = <<"a", "b", "c">>
           /\ tokens_b = Some(<<"d", "e">>)

\* C4: for a budget max_length >= 0, _truncate_seq_pair does not raise and is
\* never stuck, and when it returns tokens_a and tokens_b are prefixes of the lists it was given whose
\* combined length is min(combined length given, max_length).
C4_TruncateResult ==
    max_length >= 0 =>
        /\ pc # "raised"
        /\ pc = "truncate_pair" => ENABLED NextTrunc
        /\ pc = "returned" =>
              /\ IsPrefix(tokens_a, in_a)
              /\ IsPrefix(tokens_b[1], in_b)
              /\ Len(tokens_a) + Len(tokens_b[1])
                    = Min(Len(in_a) + Len(in_b), max_length)

\* both lists were shortened and the function returned
C4_Witness ==
    /\ pc = "returned"
    /\ max_length >= 0
    /\ Len(tokens_a) < Len(in_a)
    /\ Len(tokens_b[1]) < Len(in_b)

\* C5: every iteration of _truncate_seq_pair removes exactly one token, from the
\* end of tokens_a only when it is strictly longer than tokens_b and from the end
\* of tokens_b otherwise; lengths (10, 3) with budget 8 end as (5, 3).
C5_StepRule ==
    /\ [][(pc = "truncate_pair" /\ pc' = "truncate_pair") =>
            \/ /\ Len(tokens_a) > Len(tokens_b[1])
               /\ tokens_a' = Pop(tokens_a)
               /\ tokens_b' = tokens_b
            \/ /\ Len(tokens_a) <= Len(tokens_b[1])
               /\ tokens_b' = Some(Pop(tokens_b[1]))
               /\ tokens_a' = tokens_a]_vars
    /\ []((pc = "returned" /\ Len(in_a) = 10 /\ Len(in_b) = 3 /\ max_length = 8)
            => (Len(tokens_a) = 5 /\ Len(tokens_b[1]) = 3))

\* lengths (10, 3) with budget 8 have been truncated
C5_Witness ==
    /\ pc = "returned"
    /\ Len(in_a) = 10 /\ Len(in_b) = 3 /\ max_length = 8
    /\ Len(tokens_a) = 5

\* C6: without a text_b the budget is 3 with sep_token_extra and 2 without, and
\* tokens_a and epa_vec are the first max_seq_length - budget elements of the
\* tokenizer's output when that output is longer, and the output itself otherwise.
C6_SingleTruncation ==
    (pc = "assemble" /\ ~Truthy(example.text_b)) =>
        LET budget == IF cfg.sep_token_extra THEN 3 ELSE 2
            room   == cfg.max_seq_length - budget
            toks   == Tokenize(example.text_a)
            epa    == TokenizeEpa(example.text_a)
        IN  /\ special_tokens_count = budget
            /\ IF Len(toks) > room
               THEN /\ Len(tokens_a) = room
                    /\ Len(epa_vec) = room
                    /\ IsPrefix(tokens_a, toks)
                    /\ IsPrefix(epa_vec, epa)
               ELSE /\ tokens_a = toks
                    /\ epa_vec = epa

\* C7 as stated: in a produced Feature, segment_ids[0] is cls_token_segment_id
\* when cls_token_at_end is false, and the last non-padding position carries
\* cls_token_segment_id when it is true.
C7_ClsPlacementAsStated ==
    Produced =>
        IF cfg.cls_token_at_end
        THEN LastFeature.segment_ids[LastReal] = cfg.cls_token_segment_id
        ELSE LastFeature.segment_ids[1] = cfg.cls_token_segment_id

\* C7 amended: in a produced Feature, the first non-padding position carries
\* cls_token_segment_id when cls_token_at_end is false (that position is
\* segment_ids[0] when pad_on_left is false), and the last non-padding position
\* carries it when cls_token_at_end is true.
C7_ClsPlacement ==
    Produced =>
        IF cfg.cls_token_at_end
        THEN LastFeature.segment_ids[LastReal] = cfg.cls_token_segment_id
        ELSE /\ LastFeature.segment_ids[FirstReal] = cfg.cls_token_segment_id
             /\ ~cfg.pad_on_left =>
                    LastFeature.segment_ids[1] = cfg.cls_token_segment_id

\* a Feature padded on the left with the class token first
C7_Witness ==
    /\ Produced
    /\ cfg.pad_on_left
    /\ ~cfg.cls_token_at_end
    /\ padding_length > 0

\* C8: in a produced Feature the padding_length padding positions are the last
\* positions of every sequence when pad_on_left is false and the first when it
\* is true, and the other positions hold the assembled tokens in order.
C8_PaddingSide ==
    Produced =>
        LET f == LastFeature
            n == Len(tokens)
            p == padding_length
            msl == cfg.max_seq_length
            pads == IF cfg.pad_on_left THEN 1..p ELSE (n + 1)..msl
            reals == IF cfg.pad_on_left THEN (p + 1)..msl ELSE 1..n
        IN  /\ p >= 0
            /\ n + p = msl
            /\ \A i \in pads :
                  /\ f.input_ids[i] = cfg.pad_token
                  /\ f.input_mask[i] = PadMask(cfg)
                  /\ f.segment_ids[i] = cfg.pad_token_segment_id
                  /\ f.epa_vec[i] = 0
            /\ \A i \in reals : f.input_mask[i] = RealMask(cfg)
            /\ ConvertTokensToIds(tokens)
                  = IF cfg.pad_on_left THEN SubSeq(f.input_ids, p + 1, msl)
                                       ELSE SubSeq(f.input_ids, 1, n)

\* a Feature padded on the left by at least two positions, class token last
C8_Witness ==
    /\ Produced
    /\ padding_length >= 2
    /\ cfg.pad_on_left
    /\ cfg.cls_token_at_end

\* C9: an example without a label (None) does not fail at label resolution in
\* classification or regression mode, and its Feature is appended with no label.
C9_UnlabeledExampleConverts ==
    /\ ~(/\ pc = "raised"
         /\ ValidMode
         /\ example.label = None
         /\ err \in {"KeyError", "TypeError"})
    /\ (pc = "append" /\ example.label = None) => label_id = None

\* C10: with an output_mode other than classification or regression the call
\* fails with KeyError before any example is tokenized, converted or checked,
\* whatever the examples.
C10_BadModeFailsFirst ==
    ~ValidMode =>
        /\ pc \in {"loop", "tokenize", "raised"}
        /\ pc = "loop" => ex_index = 0
        /\ pc = "raised" => err = "KeyError"

\* the special tokens an example needs: 3 or 4 with a text_b, 2 or 3 without
TokensNeeded(e) ==
    IF Truthy(e.text_b) THEN (IF cfg.sep_token_extra THEN 4 ELSE 3)
    ELSE (IF cfg.sep_token_extra THEN 3 ELSE 2)

\* C11: when max_seq_length is too small for the special tokens of an example of
\* the batch, the call is rejected with a configuration error before any example
\* is processed: no example is converted, and no AssertionError, IndexError or
\* other error is raised in the middle of an example.
C11_TooSmallRejectedFirst ==
    (\E i \in 1..Len(examples) : cfg.max_seq_length < TokensNeeded(examples[i])) =>
        /\ pc \in {"loop", "tokenize", "raised"}
        /\ pc = "loop" => ex_index = 0
        /\ pc = "raised" => err = "ConfigurationError"

\* an example label that label_map resolves
KnownLabel(lab) == lab # None /\ InLabelMap(lab[1])

\* C12: in classification mode, when some example's label is not in label_list
\* the call never returns a Feature list, never appends a Feature for an example
\* with such a label, and goes on until it raises.
C12_UnknownLabelAborts ==
    (/\ cfg.output_mode = "classification"
     /\ \E i \in 1..Len(examples) : ~KnownLabel(examples[i].label)) =>
        /\ pc # "returned"
        /\ \A i \in 1..Len(features) : KnownLabel(examples[i].label)
        /\ pc # "raised" => ENABLED Next

\* the second example has an unknown label: the call raised KeyError after the
\* first Feature was appended
C12_Witness ==
    /\ pc = "raised"
    /\ err = "KeyError"
    /\ cfg.output_mode = "classification"
    /\ ex_index = 1
    /\ example.label = Some("x")

\* ------------------------------------ one loop iteration as a pure function
\* _truncate_seq_pair as a function of its arguments; ok is false when it
\* raises IndexError
RECURSIVE TruncatePair(_, _, _)
TruncatePair(a, b, budget) ==
    IF ~TooLong(a, b, budget) THEN [a |-> a, b |-> b, ok |-> TRUE]
    ELSE IF PopsA(a, b) THEN TruncatePair(Pop(a), b, budget)
    ELSE IF Len(b) > 0 THEN TruncatePair(a, Pop(b), budget)
    ELSE [a |-> a, b |-> b, ok |-> FALSE]

\* the label resolution of lines 929-934: the label_id, or the error raised
ResolveLabel(e, c) ==
    IF c.output_mode = "classification"
    THEN (IF KnownLabel(e.label)
          THEN [err |-> "none",
                id |-> Some([kind |-> "int", val |-> LabelMap(e.label[1])])]
          ELSE [err |-> "KeyError", id |-> None])
    ELSE IF c.output_mode = "regression"
    THEN (IF e.label # None /\ FloatParses(e.label[1])
          THEN [err |-> "none", id |-> Some(FloatValue(e.label[1]))]
          ELSE [err |-> IF e.label = None THEN "TypeError" ELSE "ValueError",
                id |-> None])
    ELSE [err |-> "KeyError", id |-> None]

\* the conversion of example e alone under configuration c, logging left out:
\* the error it ends with ("none" when it ends with a Feature) and the Feature
ConvertOne(e, c) ==
    LET pair  == Truthy(e.text_b)
        count == IF pair THEN (IF c.sep_token_extra THEN 4 ELSE 3)
                 ELSE (IF c.sep_token_extra THEN 3 ELSE 2)
        room  == c.max_seq_length - count
        toks  == Tokenize(e.text_a)
        epa0  == TokenizeEpa(e.text_a)
        tr    == IF pair THEN TruncatePair(toks, Tokenize(e.text_b[1]), room)
                 ELSE [a |-> IF Len(toks) > room THEN PyTake(toks, room) ELSE toks,
                       b |-> <<>>, ok |-> TRUE]
        tb    == IF pair THEN Some(tr.b) ELSE None
        epa1  == IF ~pair /\ Len(toks) > room THEN PyTake(epa0, room) ELSE epa0
        all   == AssembleTokens(tr.a, tb, c)
        n     == c.max_seq_length - Len(all)
        ids   == PadSeq(ConvertTokensToIds(all), c.pad_token, n, c.pad_on_left)
        mask  == PadSeq(Repeat(RealMask(c), Len(all)), PadMask(c), n, c.pad_on_left)
        segs  == PadSeq(AssembleSegments(tr.a, tb, c), c.pad_token_segment_id, n,
                        c.pad_on_left)
        epa   == PadSeq(AssembleEpa(epa1, c), 0, n, c.pad_on_left)
        lab   == ResolveLabel(e, c)
    IN  IF ~tr.ok THEN [err |-> "IndexError", feature |-> None]
        ELSE IF ~LengthsOk(ids, mask, segs, epa, c.max_seq_length)
        THEN [err |-> "AssertionError", feature |-> None]
        ELSE IF lab.err # "none" THEN [err |-> lab.err, feature |-> None]
        ELSE [err |-> "none",
              feature |-> Some(InputFeatures(ids, mask, segs, lab.id, epa))]

LogError == "ValueError: cannot convert float NaN to integer"

\* C13: in classification mode every Feature's label_id is the 0-based index of
\* its example's label in label_list, so label_list[label_id] is that label, and
\* examples with different labels get different label_ids.
C13_LabelRoundTrip ==
    cfg.output_mode = "classification" =>
        \A i \in 1..Len(features) :
            LET id == features[i].label_id[1]
            IN  /\ id.kind = "int"
                /\ id.val \in 0..(Len(cfg.label_list) - 1)
                /\ cfg.label_list[id.val + 1] = examples[i].label[1]
                /\ \A j \in 1..Len(features) :
                      examples[j].label # examples[i].label
                          => features[j].label_id # features[i].label_id

\* two Features with different labels under label_list ["1", "0"]
C13_Witness ==
    /\ cfg.output_mode = "classification"
    /\ cfg.label_list = <<"1", "0">>
    /\ Len(features) >= 2
    /\ examples[1].label # examples[2].label

\* C14: a call that raises while it handles one of the first five examples
\* raises the error that the conversion of that example raises without logging;
\* the logging adds no failure of its own.
C14_LoggingNeverFails ==
    (pc = "raised" /\ ex_index < LogFirst) => err = ConvertOne(example, cfg).err

\* C15: the features list grows by one Feature per example, in order, and when
\* the call returns it has len(examples) Features, the one at position i being
\* the conversion of examples[i].
C15_OutputOrder ==
    /\ Len(features) = ex_index
    /\ ex_index <= Len(examples)
    /\ pc = "returned" =>
          /\ Len(features) = Len(examples)
          /\ \A i \in 1..Len(examples) :
                Some(features[i]) = ConvertOne(examples[i], cfg).feature

\* a call returned three or more Features of examples that are not all the same
C15_Witness ==
    /\ pc = "returned"
    /\ Len(features) >= 3
    /\ examples[1] # examples[2]

\* C16: what the loop does with an example is what the conversion of that
\* example alone does: the Feature last appended, at any position and after any
\* other examples, is the Feature of its example alone, equal examples of a batch
\* have equal Features, and an error other than a logging error is the error of
\* the example alone.
C16_Independence ==
    /\ Len(features) >= 1 =>
          ConvertOne(examples[Len(features)], cfg).feature
              = Some(features[Len(features)])
    /\ \A i, j \in 1..Len(features) :
          examples[i] = examples[j] => features[i] = features[j]
    /\ (pc = "raised" /\ err # LogError) => err = ConvertOne(example, cfg).err

\* a single-span example was converted right after a pair example
C16_Witness ==
    /\ Len(features) >= 2
    /\ Truthy(examples[1].text_b)
    /\ ~Truthy(examples[2].text_b)

\* the layout of a pair after assembly, for la tokens of span A and lb of span B:
\* the budgeted number of special tokens, span A and its separator(s) under
\* sequence_a_segment_id, span B and its separator under sequence_b_segment_id
PairLayout(la, lb) ==
    LET o      == IF cfg.cls_token_at_end THEN 0 ELSE 1
        nsep   == IF cfg.sep_token_extra THEN 2 ELSE 1
        budget == IF cfg.sep_token_extra THEN 4 ELSE 3
    IN  /\ special_tokens_count = budget
        /\ Len(tokens) = la + lb + budget
        /\ Len(segment_ids) = Len(tokens)
        /\ Cardinality({i \in 1..Len(tokens) : tokens[i] \in {cls_token, sep_token}})
              = budget
        /\ tokens[IF cfg.cls_token_at_end THEN Len(tokens) ELSE 1] = cls_token
        /\ \A i \in 1..(la + nsep) :
              /\ segment_ids[o + i] = cfg.sequence_a_segment_id
              /\ tokens[o + i] = IF i <= la THEN tokens_a[i] ELSE sep_token
        /\ \A i \in 1..(lb + 1) :
              /\ segment_ids[o + la + nsep + i] = cfg.sequence_b_segment_id
              /\ tokens[o + la + nsep + i]
                    = IF i <= lb THEN tokens_b[1][i] ELSE sep_token

\* C18 as stated: for every example whose text_b is present, the assembled
\* sequence holds the budgeted 3 (4 with sep_token_extra) special tokens, its
\* length is len(tokens_a) + len(tokens_b) + budget, and the segment ids follow
\* the spans.
C18_PairLayoutAsStated ==
    (pc = "pad" /\ Truthy(example.text_b))
        => PairLayout(Len(tokens_a), Len(tokens_b[1]))

\* C18 amended: the same for every example whose tokens_b is not empty after
\* truncation; a text_b whose tokens_b is empty gets no final separator.
C18_PairLayout ==
    /\ (pc = "pad" /\ Truthy(tokens_b))
          => PairLayout(Len(tokens_a), Len(tokens_b[1]))
    /\ (pc = "pad" /\ Truthy(example.text_b) /\ ~Truthy(tokens_b))
          => Len(tokens) = Len(tokens_a) + special_tokens_count - 1

\* a pair was assembled with two separators after span A and the class token last
C18_Witness ==
    /\ pc = "pad"
    /\ Truthy(tokens_b)
    /\ cfg.sep_token_extra
    /\ cfg.cls_token_at_end
    /\ Len(tokens_a) >= 1

\* C19: in a produced Feature the positions whose mask is the real-token value
\* (1, or 0 when mask_padding_with_zero is false) are as many as the assembled
\* tokens, and every other position has the opposite mask value, token id
\* pad_token, segment id pad_token_segment_id and auxiliary weight 0.0.
C19_MaskAndPadValues ==
    Produced =>
        LET f    == LastFeature
            real == IF cfg.mask_padding_with_zero THEN 1 ELSE 0
            R    == {i \in 1..cfg.max_seq_length : f.input_mask[i] = real}
        IN  /\ Cardinality(R) = Len(tokens)
            /\ \A i \in (1..cfg.max_seq_length) \ R :
                  /\ f.input_mask[i] = 1 - real
                  /\ f.input_ids[i] = cfg.pad_token
                  /\ f.segment_ids[i] = cfg.pad_token_segment_id
                  /\ f.epa_vec[i] = 0

\* a padded Feature with the inverted mask convention
C19_Witness ==
    /\ Produced
    /\ ~cfg.mask_padding_with_zero
    /\ ~cfg.pad_on_left
    /\ padding_length >= 1

\* ------------------------------------------- metric reporter and registries
\* a scalar metric value and a mapping used as a metric value; the value of a
\* scalar is kept as a term: <<"value", n>> for a number of hundredths,
\* <<"nan">>, or the library call that computes it
Scalar(x) == [kind |-> "scalar", val |-> x]
Mapping(m) == [kind |-> "mapping", val |-> m]

RECURSIVE CountEqual(_, _)
CountEqual(p, l) ==
    IF p = <<>> THEN 0
    ELSE (IF Head(p) = Head(l) THEN 1 ELSE 0) + CountEqual(Tail(p), Tail(l))

\* (preds == labels).mean()
simple_accuracy(p, l) ==
    IF Len(p) = 0 THEN Scalar(<<"nan">>)
    ELSE Scalar(<<"value", (100 * CountEqual(p, l)) \div Len(p)>>)

acc_and_f1(p, l) ==
    LET acc == simple_accuracy(p, l)
        f1  == Scalar(<<"f1_score", l, p, "macro">>)
    IN  ("acc" :> acc) @@ ("f1" :> f1)
           @@ ("acc_and_f1" :> Scalar(<<"mean", acc.val, f1.val>>))

pearson_and_spearman(p, l) ==
    LET pearson_corr  == Scalar(<<"pearsonr", p, l>>)
        spearman_corr == Scalar(<<"spearmanr", p, l>>)
    IN  ("pearson" :> pearson_corr) @@ ("spearmanr" :> spearman_corr)
           @@ ("corr" :> Scalar(<<"mean", pearson_corr.val, spearman_corr.val>>))

\* the task names of the branches of compute_metrics
AccTasks ==
    {"semeval5", "ciron", "sst-2", "airrecord", "liar", "mr", "spr2018", "ssst2",
     "subj", "trec", "twitter", "mnli", "mnli-mm", "qnli", "rte", "wnli"}
MetricTasks == AccTasks \cup {"cola", "relation", "mrpc", "sts-b", "qqp"}

\* the mapping compute_metrics returns for a task of MetricTasks
compute_metrics(task, p, l) ==
    IF task = "cola" THEN "mcc" :> Scalar(<<"matthews_corrcoef", l, p>>)
    ELSE IF task = "relation" THEN "acc_and_f1" :> Mapping(acc_and_f1(p, l))
    ELSE IF task \in {"mrpc", "qqp"} THEN acc_and_f1(p, l)
    ELSE IF task = "sts-b" THEN pearson_and_spearman(p, l)
    ELSE "acc" :> simple_accuracy(p, l)

\* get_labels() of each processor class
GetLabels(class) ==
    IF class = "RelationProcessor"
    THEN <<Some("advise"), Some("effect"), Some("int"), Some("mechanism"), Some("NAN")>>
    ELSE IF class = "CironProcessor"
    THEN <<Some("1"), Some("2"), Some("3"), Some("4"), Some("5")>>
    ELSE IF class \in {"TrecProcessor", "LiarProcessor"}
    THEN <<Some("0"), Some("1"), Some("2"), Some("3"), Some("4"), Some("5")>>
    ELSE IF class = "AirrecordProcessor" THEN <<Some("0"), Some("1"), Some("2")>>
    ELSE IF class \in {"MnliProcessor", "MnliMismatchedProcessor"}
    THEN <<Some("contradiction"), Some("entailment"), Some("neutral")>>
    ELSE IF class = "StsbProcessor" THEN <<None>>
    ELSE IF class \in {"QnliProcessor", "RteProcessor"}
    THEN <<Some("entailment"), Some("not_entailment")>>
    ELSE <<Some("0"), Some("1")>>

processors ==
    ("cola" :> "ColaProcessor") @@ ("mnli" :> "MnliProcessor")
    @@ ("mnli-mm" :> "MnliMismatchedProcessor") @@ ("relation" :> "RelationProcessor")
    @@ ("semeval5" :> "SemEval5Processor") @@ ("ciron" :> "CironProcessor")
    @@ ("mrpc" :> "MrpcProcessor") @@ ("sst-2" :> "Sst2Processor")
    @@ ("airrecord" :> "AirrecordProcessor") @@ ("liar" :> "LiarProcessor")
    @@ ("mr" :> "MrProcessor") @@ ("spr2018" :> "Spr2018Processor")
    @@ ("ssst2" :> "Ssst2Processor") @@ ("subj" :> "SubjProcessor")
    @@ ("trec" :> "TrecProcessor") @@ ("twitter" :> "TwitterProcessor")
    @@ ("sts-b" :> "StsbProcessor") @@ ("qqp" :> "QqpProcessor")
    @@ ("qnli" :> "QnliProcessor") @@ ("rte" :> "RteProcessor")
    @@ ("wnli" :> "WnliProcessor")

output_modes ==
    [t \in {"cola", "mnli", "mnli-mm", "relation", "semeval5", "ciron", "mrpc",
            "sst-2", "airrecord", "liar", "mr", "spr2018", "ssst2", "subj", "trec",
            "twitter", "sts-b", "qqp", "qnli", "rte", "wnli"}
        |-> IF t = "sts-b" THEN "regression" ELSE "classification"]

GLUE_TASKS_NUM_LABELS ==
    ("cola" :> 2) @@ ("mnli" :> 3) @@ ("relation" :> 5) @@ ("semeval5" :> 2)
    @@ ("ciron" :> 5) @@ ("mrpc" :> 2) @@ ("sst-2" :> 2) @@ ("airrecord" :> 3)
    @@ ("liar" :> 6) @@ ("mr" :> 2) @@ ("spr2018" :> 2) @@ ("subj" :> 2)
    @@ ("ssst2" :> 2) @@ ("trec" :> 6) @@ ("twitter" :> 2) @@ ("sts-b" :> 1)
    @@ ("qqp" :> 2) @@ ("qnli" :> 2) @@ ("rte" :> 2) @@ ("wnli" :> 2)

\* the task names a caller may ask for: the registered ones and two others
TaskNames == DOMAIN processors \cup {"sst2", "snli"}

PredSeqs == UNION {SeqsOf({0, 1}, n) : n \in 0..MaxPreds}

InitMetrics ==
    /\ lookup \in {"compute_metrics", "processors", "output_modes",
                   "GLUE_TASKS_NUM_LABELS"}
    /\ task_name \in TaskNames
    /\ IF lookup = "compute_metrics"
       THEN preds \in PredSeqs /\ labels \in PredSeqs
       ELSE preds = <<>> /\ labels = <<>>
    /\ result = None
    /\ pc = "call"
    /\ err = "none"
    /\ examples = <<>>
    /\ cfg = <<>>
    /\ ex_index = 0
    /\ features = <<>>
    /\ tokens_a = None /\ tokens_b = None /\ epa_vec = None
    /\ special_tokens_count = 0
    /\ max_length = 0 /\ in_a = None /\ in_b = None /\ ret_pc = "returned"
    /\ tokens = None /\ segment_ids = None /\ input_ids = None /\ input_mask = None
    /\ padding_length = 0
    /\ label_id = None

\* compute_metrics(task_name, preds, labels)
ComputeMetrics ==
    /\ pc = "call"
    /\ lookup = "compute_metrics"
    /\ IF Len(preds) # Len(labels)
       THEN pc' = "raised" /\ err' = "AssertionError" /\ result' = result
       ELSE IF task_name \in MetricTasks
       THEN /\ pc' = "returned"
            /\ err' = err
            /\ result' = Some(compute_metrics(task_name, preds, labels))
       ELSE pc' = "raised" /\ err' = "KeyError" /\ result' = result
    /\ UNCHANGED <<examples, cfg, ex_index, features, locals, frame,
                   task_name, preds, labels, lookup>>

\* processors[task_name]().get_labels()
LookupProcessor ==
    /\ pc = "call"
    /\ lookup = "processors"
    /\ IF task_name \in DOMAIN processors
       THEN /\ pc' = "returned"
            /\ err' = err
            /\ result' = Some(GetLabels(processors[task_name]))
       ELSE pc' = "raised" /\ err' = "KeyError" /\ result' = result
    /\ UNCHANGED <<examples, cfg, ex_index, features, locals, frame,
                   task_name, preds, labels, lookup>>

\* output_modes[task_name]
LookupOutputMode ==
    /\ pc = "call"
    /\ lookup = "output_modes"
    /\ IF task_name \in DOMAIN output_modes
       THEN /\ pc' = "returned"
            /\ err' = err
            /\ result' = Some(output_modes[task_name])
       ELSE pc' = "raised" /\ err' = "KeyError" /\ result' = result
    /\ UNCHANGED <<examples, cfg, ex_index, features, locals, frame,
                   task_name, preds, labels, lookup>>

\* GLUE_TASKS_NUM_LABELS[task_name]
LookupNumLabels ==
    /\ pc = "call"
    /\ lookup = "GLUE_TASKS_NUM_LABELS"
    /\ IF task_name \in DOMAIN GLUE_TASKS_NUM_LABELS
       THEN /\ pc' = "returned"
            /\ err' = err
            /\ result' = Some(GLUE_TASKS_NUM_LABELS[task_name])
       ELSE pc' = "raised" /\ err' = "KeyError" /\ result' = result
    /\ UNCHANGED <<examples, cfg, ex_index, features, locals, frame,
                   task_name, preds, labels, lookup>>

NextMetrics ==
    \/ ComputeMetrics
    \/ LookupProcessor
    \/ LookupOutputMode
    \/ LookupNumLabels

SpecMetrics == InitMetrics /\ [][NextMetrics]_vars

\* C17: for equal-length preds and labels, compute_metrics returns for every
\* registered task a mapping whose values are all scalars, and raises KeyError
\* for every task that is not registered.
C17_MetricsAreScalars ==
    (lookup = "compute_metrics" /\ Len(preds) = Len(labels) /\ pc # "call") =>
        IF task_name \in DOMAIN processors
        THEN /\ pc = "returned"
             /\ \A k \in DOMAIN result[1] : result[1][k].kind = "scalar"
        ELSE pc = "raised" /\ err = "KeyError"

\* C20: a task name that resolves in processors, output_modes,
\* GLUE_TASKS_NUM_LABELS or compute_metrics never raises KeyError in another of
\* them, and GLUE_TASKS_NUM_LABELS[task] is the number of labels get_labels()
\* of the task's processor returns.
C20_RegistriesConsistent ==
    /\ (pc = "raised" /\ err = "KeyError") =>
          task_name \notin (DOMAIN processors \cup DOMAIN output_modes
                              \cup DOMAIN GLUE_TASKS_NUM_LABELS \cup MetricTasks)
    /\ (pc = "returned" /\ lookup = "GLUE_TASKS_NUM_LABELS") =>
          result[1] = Len(GetLabels(processors[task_name]))

====
